---- MODULE Spec2Model ----
(***************************************************************************)
(* Model of the boolean query engine of cns_buscador (search_engine.py):   *)
(* TextProcessor (normalize_text, tokenize, extract_snippet),              *)
(* InvertedIndex (add_document, search and its helpers) and                *)
(* CNSSearchEngine (search, _calculate_score, get_stats).                  *)
(*                                                                         *)
(* A Python str is a sequence of one-character strings.  A missing value   *)
(* (None / NaN, what pandas gives for an empty CSV cell) is NaN.  A        *)
(* document is a function from the keys it has ("titulo", "texto") to str  *)
(* or NaN.  A Python list of ids produced from a set is modelled as the    *)
(* set of its elements; where the order of the list matters (the ranking   *)
(* of CNSSearchEngine.search) every order of the set is a possible list.   *)
(***************************************************************************)
EXTENDS Integers, Sequences, FiniteSets, TLC

VARIABLES
    index,      \* InvertedIndex.index: term -> set of document ids
    documents,  \* InvertedIndex.documents: document id -> document
    query,      \* the query of the search call in progress or just returned
    outcome,    \* what the last call did (see Returned, Raised, Ranked, Snipped);
                \* inside the parenthesis loop, the locals of the call (see Locals)
    pc,         \* "idle": no call in progress; "loop": in the parenthesis loop of
                \* _parse_boolean_query; "searched": InvertedIndex.search has ended;
                \* "ranked": CNSSearchEngine.search has ended; "snipped":
                \* extract_snippet has ended
    nadd        \* number of add_document calls so far

vars == <<index, documents, query, outcome, pc, nadd>>

(***************************************************************************)
(* Bounds of the model.                                                    *)
(***************************************************************************)
MaxDocs == 2    \* document ids are 0 .. MaxDocs - 1
MaxAdds == 2    \* add_document calls in one run
MaxWords == 3   \* words of a generated query

(***************************************************************************)
(* Characters and Python's str primitives.                                 *)
(***************************************************************************)
NaN == <<"NaN">>

isna(x) == x = NaN

WhiteSpace == {" ", "\t", "\n"}

AsciiAlnum ==
    {"a", "b", "c", "d", "e", "f", "g", "h", "i", "j", "k", "l", "m",
     "n", "o", "p", "q", "r", "s", "t", "u", "v", "w", "x", "y", "z",
     "0", "1", "2", "3", "4", "5", "6", "7", "8", "9"}

\* str.lower() on one character
LowerOf ==
    "A" :> "a" @@ "B" :> "b" @@ "C" :> "c" @@ "D" :> "d" @@ "E" :> "e" @@
    "F" :> "f" @@ "G" :> "g" @@ "H" :> "h" @@ "I" :> "i" @@ "J" :> "j" @@
    "K" :> "k" @@ "L" :> "l" @@ "M" :> "m" @@ "N" :> "n" @@ "O" :> "o" @@
    "P" :> "p" @@ "Q" :> "q" @@ "R" :> "r" @@ "S" :> "s" @@ "T" :> "t" @@
    "U" :> "u" @@ "V" :> "v" @@ "W" :> "w" @@ "X" :> "x" @@ "Y" :> "y" @@
    "Z" :> "z" @@ "Á" :> "á" @@ "Ú" :> "ú" @@ "Ó" :> "ó"

lower(c) == IF c \in DOMAIN LowerOf THEN LowerOf[c] ELSE c

\* unicodedata.normalize('NFKD', c) with the combining marks dropped
BaseOf == "á" :> "a" @@ "ú" :> "u" @@ "ó" :> "o" @@ "à" :> "a" @@ "ã" :> "a" @@ "é" :> "e"

strip_combining(c) == IF c \in DOMAIN BaseOf THEN BaseOf[c] ELSE c

Min(S) == CHOOSE x \in S : \A y \in S : x <= y

\* the positions at which sub occurs in s
Occurrences(s, sub) ==
    {i \in 1..(Len(s) - Len(sub) + 1) : SubSeq(s, i, i + Len(sub) - 1) = sub}

\* sub in s
contains(s, sub) == Occurrences(s, sub) /= {}

\* s.startswith(prefix)
startswith(s, prefix) ==
    Len(s) >= Len(prefix) /\ SubSeq(s, 1, Len(prefix)) = prefix

\* s.replace(old, new, 1)
replace_first(s, old, new) ==
    LET occ == Occurrences(s, old) IN
    IF occ = {} THEN s
    ELSE LET i == Min(occ) IN
         SubSeq(s, 1, i - 1) \o new \o SubSeq(s, i + Len(old), Len(s))

\* s.strip()
strip(s) ==
    LET keep == {i \in 1..Len(s) : s[i] \notin WhiteSpace} IN
    IF keep = {} THEN <<>>
    ELSE SubSeq(s, Min(keep), CHOOSE i \in keep : \A j \in keep : j <= i)

RECURSIVE split_ws_from(_, _, _, _)
split_ws_from(s, i, cur, acc) ==
    IF i > Len(s) THEN (IF cur = <<>> THEN acc ELSE Append(acc, cur))
    ELSE IF s[i] \in WhiteSpace
         THEN split_ws_from(s, i + 1, <<>>, IF cur = <<>> THEN acc ELSE Append(acc, cur))
         ELSE split_ws_from(s, i + 1, Append(cur, s[i]), acc)

\* s.split()
split(s) == split_ws_from(s, 1, <<>>, <<>>)

RECURSIVE split_on(_, _)
\* s.split(sep), sep not empty
split_on(s, sep) ==
    LET occ == Occurrences(s, sep) IN
    IF occ = {} THEN <<s>>
    ELSE LET i == Min(occ) IN
         <<SubSeq(s, 1, i - 1)>> \o split_on(SubSeq(s, i + Len(sep), Len(s)), sep)

RECURSIVE join(_)
\* ' '.join(words)
join(words) ==
    IF words = <<>> THEN <<>>
    ELSE IF Len(words) = 1 THEN words[1]
    ELSE words[1] \o <<" ">> \o join(Tail(words))

RECURSIVE format_int(_)
\* f'{n}' for n >= 0
format_int(n) ==
    LET digits == <<"0", "1", "2", "3", "4", "5", "6", "7", "8", "9">> IN
    IF n < 10 THEN <<digits[n + 1]>>
    ELSE Append(format_int(n \div 10), digits[(n % 10) + 1])

(***************************************************************************)
(* TextProcessor                                                           *)
(***************************************************************************)
stopwords == {
    <<"a">>, <<"o">>, <<"e">>, <<"d", "e">>, <<"d", "a">>, <<"d", "o">>, <<"d", "a", "s">>,
    <<"d", "o", "s">>, <<"e", "m">>, <<"p", "a", "r", "a">>, <<"p", "o", "r">>, <<"c", "o", "m">>,
    <<"n", "o">>, <<"n", "a">>, <<"n", "o", "s">>, <<"n", "a", "s">>, <<"u", "m">>,
    <<"u", "m", "a">>, <<"u", "n", "s">>, <<"u", "m", "a", "s">>, <<"s", "e">>, <<"q", "u", "e">>,
    <<"q", "u", "a", "n", "d", "o">>, <<"o", "n", "d", "e">>, <<"c", "o", "m", "o">>,
    <<"m", "a", "i", "s">>, <<"m", "u", "i", "t", "o">>, <<"m", "a", "s">>, <<"o", "u">>,
    <<"p", "e", "l", "o">>, <<"p", "e", "l", "a">>, <<"p", "e", "l", "o", "s">>,
    <<"p", "e", "l", "a", "s">>, <<"a", "o">>, <<"a", "o", "s">>, <<"à", "s">>, <<"s", "e", "r">>,
    <<"e", "s", "t", "a", "r">>, <<"t", "e", "r">>, <<"h", "a", "v", "e", "r">>, <<"s", "e", "u">>,
    <<"s", "u", "a">>, <<"s", "e", "u", "s">>, <<"s", "u", "a", "s">>, <<"m", "e", "u">>,
    <<"m", "i", "n", "h", "a">>, <<"m", "e", "u", "s">>, <<"m", "i", "n", "h", "a", "s">>,
    <<"n", "o", "s", "s", "o">>, <<"n", "o", "s", "s", "a">>, <<"n", "o", "s", "s", "o", "s">>,
    <<"n", "o", "s", "s", "a", "s">>, <<"e", "l", "e">>, <<"e", "l", "a">>, <<"e", "l", "e", "s">>,
    <<"e", "l", "a", "s">>, <<"e", "s", "t", "e">>, <<"e", "s", "t", "a">>,
    <<"e", "s", "t", "e", "s">>, <<"e", "s", "t", "a", "s">>, <<"e", "s", "s", "e">>,
    <<"e", "s", "s", "a">>, <<"e", "s", "s", "e", "s">>, <<"e", "s", "s", "a", "s">>,
    <<"a", "q", "u", "e", "l", "e">>, <<"a", "q", "u", "e", "l", "a">>,
    <<"a", "q", "u", "e", "l", "e", "s">>, <<"a", "q", "u", "e", "l", "a", "s">>,
    <<"f", "o", "i">>, <<"é">>, <<"s", "ã", "o">>, <<"f", "o", "r", "a", "m">>,
    <<"s", "e", "n", "d", "o">>, <<"s", "i", "d", "o">> }

\* one character through lower(), NFKD folding and re.sub(r'[^a-z0-9\s]', ' ')
normalize_char(c) ==
    LET f == strip_combining(lower(c)) IN
    IF f \in AsciiAlnum \/ f \in WhiteSpace THEN f ELSE " "

RECURSIVE collapse_from(_, _, _)
\* re.sub(r'\s+', ' ', s): every run of whitespace becomes one space
collapse_from(s, i, acc) ==
    IF i > Len(s) THEN acc
    ELSE IF s[i] \in WhiteSpace
         THEN collapse_from(s, i + 1,
                  IF i > 1 /\ s[i - 1] \in WhiteSpace THEN acc ELSE Append(acc, " "))
         ELSE collapse_from(s, i + 1, Append(acc, s[i]))

normalize_text(text) ==
    IF isna(text) THEN <<>>
    ELSE LET mapped == [i \in 1..Len(text) |-> normalize_char(text[i])] IN
         strip(collapse_from(mapped, 1, <<>>))

is_token(t) == Len(t) > 2 /\ t \notin stopwords

tokenize(text) == SelectSeq(split(normalize_text(text)), is_token)

(***************************************************************************)
(* InvertedIndex: construction                                             *)
(***************************************************************************)
Range(f) == {f[i] : i \in DOMAIN f}

TitlePrefix == <<"t", "i", "t", "l", "e", ":">>

\* self.index[key].add(doc_id) on a defaultdict(set), for every key of keys
add_postings(idx, keys, doc_id) ==
    [k \in DOMAIN idx \cup keys |->
        IF k \in keys
        THEN (IF k \in DOMAIN idx THEN idx[k] ELSE {}) \cup {doc_id}
        ELSE idx[k]]

title_keys(document) ==
    IF "titulo" \in DOMAIN document
    THEN LET toks == Range(tokenize(document["titulo"])) IN
         toks \cup {TitlePrefix \o t : t \in toks}
    ELSE {}

text_keys(document) ==
    IF "texto" \in DOMAIN document /\ ~isna(document["texto"])
    THEN Range(tokenize(document["texto"]))
    ELSE {}

\* InvertedIndex.add_document: the index after the call
add_document_index(idx, doc_id, document) ==
    add_postings(add_postings(idx, title_keys(document), doc_id),
                 text_keys(document), doc_id)

\* InvertedIndex.add_document: the document store after the call
add_document_store(docs, doc_id, document) ==
    [d \in DOMAIN docs \cup {doc_id} |-> IF d = doc_id THEN document ELSE docs[d]]

(***************************************************************************)
(* InvertedIndex: query evaluation                                         *)
(***************************************************************************)
AND == <<"A", "N", "D">>
OR == <<"O", "R">>
NOT == <<"N", "O", "T">>
OrSeparator == <<" ", "O", "R", " ">>
SubPrefix == <<"_", "_", "S", "U", "B", "_", "_">>
PhrasePrefix == <<"_", "_", "P", "H", "R", "A", "S", "E", "_", "_">>
PlaceholderSuffix == <<"_", "_">>
Quote == "\""

placeholder_offset == 1000

\* What a call did: it returned the ids, or an exception left it.
\*   aborted      the parenthesis loop hit "return []" (line 135)
\*   flat         the rewritten query when the call ended
\*   sub_results  the placeholder table when the call ended
Returned(ids, aborted, flat, sub_results) ==
    [raised |-> FALSE, ids |-> ids, aborted |-> aborted, flat |-> flat,
     sub_results |-> sub_results]

Raised(flat) ==
    [raised |-> TRUE, ids |-> {}, aborted |-> FALSE, flat |-> flat, sub_results |-> <<>>]

\* a _search_term that looks the term up as typed, without normalizing it
search_term_raw(idx, term) == IF term \in DOMAIN idx THEN idx[term] ELSE {}

search_term(idx, term) ==
    LET normalized_term == normalize_text(term) IN
    IF normalized_term \in DOMAIN idx THEN idx[normalized_term] ELSE {}

\* text_content of _search_phrase for a document whose title is a str
phrase_content(doc) ==
    (IF "titulo" \in DOMAIN doc THEN doc["titulo"] \o <<" ">> ELSE <<>>)
    \o (IF "texto" \in DOMAIN doc /\ ~isna(doc["texto"]) THEN doc["texto"] ELSE <<>>)

\* doc['titulo'] + " " with a NaN title is float + str: TypeError
phrase_content_raises(doc) == "titulo" \in DOMAIN doc /\ isna(doc["titulo"])

\* the phrase _search_phrase looks for in the documents' normalized text
normalized_phrase_of(phrase_tokens) == join(phrase_tokens)

\* _search_phrase: [raised, ids]
search_phrase(idx, docs, phrase) ==
    LET phrase_tokens == tokenize(phrase) IN
    IF phrase_tokens = <<>> THEN [raised |-> FALSE, ids |-> {}]
    ELSE LET candidate_docs == search_term(idx, phrase_tokens[1])
             normalized_phrase == normalized_phrase_of(phrase_tokens)
         IN  IF \E d \in candidate_docs : phrase_content_raises(docs[d])
             THEN [raised |-> TRUE, ids |-> {}]
             ELSE [raised |-> FALSE,
                   ids |-> {d \in candidate_docs :
                              contains(normalize_text(phrase_content(docs[d])),
                                       normalized_phrase)}]

RECURSIVE classify_terms(_, _, _, _)
\* the while loop of _parse_and_not (parts is 1-based here)
classify_terms(parts, i, positive_terms, negative_terms) ==
    IF i > Len(parts)
    THEN [positive_terms |-> positive_terms, negative_terms |-> negative_terms]
    ELSE IF parts[i] = NOT /\ i + 1 <= Len(parts)
         THEN classify_terms(parts, i + 2, positive_terms,
                             Append(negative_terms, parts[i + 1]))
         ELSE IF parts[i] = AND
              THEN classify_terms(parts, i + 1, positive_terms, negative_terms)
              ELSE classify_terms(parts, i + 1, Append(positive_terms, parts[i]),
                                  negative_terms)

is_placeholder(term) == startswith(term, SubPrefix) \/ startswith(term, PhrasePrefix)

\* the set a term of a clause stands for (lines 192-195 and 209-212)
term_results(idx, term, sub_results) ==
    IF is_placeholder(term)
    THEN (IF term \in DOMAIN sub_results THEN sub_results[term] ELSE {})
    ELSE search_term(idx, term)

RECURSIVE intersect_from(_, _, _)
intersect_from(result_sets, i, result) ==
    IF i > Len(result_sets) THEN result
    ELSE intersect_from(result_sets, i + 1, result \cap result_sets[i])

\* update() where intersection_update() stands
union_all(result_sets) == UNION {result_sets[i] : i \in 1..Len(result_sets)}

\* result = result_sets[0].copy(); intersection_update with the others
intersect_all(result_sets) == intersect_from(result_sets, 2, result_sets[1])

\* a loop over negative_terms that removes nothing
keep_all(negative_sets, i, result) == result

RECURSIVE subtract_from(_, _, _)
subtract_from(negative_sets, i, result) ==
    IF i > Len(negative_sets) THEN result
    ELSE subtract_from(negative_sets, i + 1, result \ negative_sets[i])

\* what _parse_and_not returns when it found no positive term
no_positive_result(negative_sets) == {}

parse_and_not(idx, query_part, sub_results) ==
    LET parts == split(query_part)
        terms == classify_terms(parts, 1, <<>>, <<>>)
        pos == terms.positive_terms
        neg == terms.negative_terms
        negative_sets == [i \in 1..Len(neg) |-> term_results(idx, neg[i], sub_results)]
    IN  IF pos = <<>> THEN no_positive_result(negative_sets)
        ELSE LET result_sets ==
                     [i \in 1..Len(pos) |-> term_results(idx, pos[i], sub_results)]
             IN  subtract_from(negative_sets, 1, intersect_all(result_sets))

\* or_parts of _evaluate_simple_query
or_parts_of(q) ==
    LET raw == split_on(q, OrSeparator) IN [i \in 1..Len(raw) |-> strip(raw[i])]

evaluate_simple_query(idx, q, sub_results) ==
    LET or_parts == or_parts_of(q) IN
    UNION {IF or_parts[i] = <<>> THEN {} ELSE parse_and_not(idx, or_parts[i], sub_results) :
           i \in 1..Len(or_parts)}

RECURSIVE find_phrases_from(_, _)
\* re.findall(r'"([^"]+)"', q), scanning from position i
find_phrases_from(q, i) ==
    LET quotes == {j \in i..Len(q) : q[j] = Quote} IN
    IF quotes = {} THEN <<>>
    ELSE LET a == Min(quotes)
             closing == {j \in (a + 1)..Len(q) : q[j] = Quote}
         IN  IF closing = {} THEN <<>>
             ELSE LET b == Min(closing) IN
                  IF b = a + 1 THEN find_phrases_from(q, b)
                  ELSE <<SubSeq(q, a + 1, b - 1)>> \o find_phrases_from(q, b + 1)

find_phrases(q) == find_phrases_from(q, 1)

\* f'__PHRASE__{i+placeholder_offset}__', i counted from 0
phrase_placeholder(i) ==
    PhrasePrefix \o format_int(i + placeholder_offset) \o PlaceholderSuffix

\* f'__SUB__{placeholder_id}__'
sub_placeholder(placeholder_id) ==
    SubPrefix \o format_int(placeholder_id) \o PlaceholderSuffix

RECURSIVE replace_phrases(_, _, _)
\* the first loop over enumerate(phrases); k is i + 1
replace_phrases(q, phrases, k) ==
    IF k > Len(phrases) THEN q
    ELSE replace_phrases(
             replace_first(q, <<Quote>> \o phrases[k] \o <<Quote>>, phrase_placeholder(k - 1)),
             phrases, k + 1)

\* the same search with r'\(([^()]*)\)', which also matches an empty group
innermost_group_or_empty(q) ==
    LET opens == {a \in 1..Len(q) :
                    /\ q[a] = "("
                    /\ \E b \in (a + 1)..Len(q) :
                          /\ q[b] = ")"
                          /\ \A j \in (a + 1)..(b - 1) : q[j] \notin {"(", ")"}}
    IN  IF opens = {} THEN <<>>
        ELSE LET a == Min(opens) IN <<a, Min({j \in (a + 1)..Len(q) : q[j] = ")"})>>

\* re.search(r'\(([^()]+)\)', q): <<start, end>> of the leftmost match, <<>> if none
innermost_group(q) ==
    LET opens == {a \in 1..Len(q) :
                    /\ q[a] = "("
                    /\ \E b \in (a + 2)..Len(q) :
                          /\ q[b] = ")"
                          /\ \A j \in (a + 1)..(b - 1) : q[j] \notin {"(", ")"}}
    IN  IF opens = {} THEN <<>>
        ELSE LET a == Min(opens) IN <<a, Min({j \in (a + 1)..Len(q) : q[j] = ")"})>>

RECURSIVE resolve_groups_without_table(_, _, _, _)
\* the same loop evaluating each group with an empty placeholder table
resolve_groups_without_table(idx, q, sub_results, placeholder_id) ==
    IF "(" \notin Range(q)
    THEN Returned(evaluate_simple_query(idx, q, sub_results), FALSE, q, sub_results)
    ELSE LET match == innermost_group(q) IN
         IF match = <<>> THEN Returned({}, TRUE, q, sub_results)
         ELSE LET sub_query == SubSeq(q, match[1] + 1, match[2] - 1)
                  placeholder == sub_placeholder(placeholder_id)
                  result_set == evaluate_simple_query(idx, sub_query, <<>>)
              IN  resolve_groups_without_table(idx,
                      replace_first(q, SubSeq(q, match[1], match[2]), placeholder),
                      (placeholder :> result_set) @@ sub_results,
                      placeholder_id + 1)

RECURSIVE resolve_groups(_, _, _, _)
\* the while loop over the parenthesized groups, then the final evaluation
resolve_groups(idx, q, sub_results, placeholder_id) ==
    IF "(" \notin Range(q)
    THEN Returned(evaluate_simple_query(idx, q, sub_results), FALSE, q, sub_results)
    ELSE LET match == innermost_group(q) IN
         IF match = <<>> THEN Returned({}, TRUE, q, sub_results)
         ELSE LET sub_query == SubSeq(q, match[1] + 1, match[2] - 1)
                  placeholder == sub_placeholder(placeholder_id)
                  result_set == evaluate_simple_query(idx, sub_query, sub_results)
              IN  resolve_groups(idx,
                      replace_first(q, SubSeq(q, match[1], match[2]), placeholder),
                      (placeholder :> result_set) @@ sub_results,
                      placeholder_id + 1)

\* InvertedIndex._parse_boolean_query
parse_boolean_query(idx, docs, q0) ==
    LET q1 == strip(q0)
        phrases == find_phrases(q1)
        q2 == replace_phrases(q1, phrases, 1)
        found == [k \in 1..Len(phrases) |-> search_phrase(idx, docs, phrases[k])]
        sub_results ==
            [ph \in {phrase_placeholder(k - 1) : k \in 1..Len(phrases)} |->
                found[CHOOSE k \in 1..Len(phrases) : phrase_placeholder(k - 1) = ph].ids]
    IN  IF \E k \in 1..Len(phrases) : found[k].raised THEN Raised(q2)
        ELSE resolve_groups(idx, q2, sub_results, 0)

\* InvertedIndex.search
search(idx, docs, q) == parse_boolean_query(idx, docs, q)

(***************************************************************************)
(* What a search does to the index.  self.index is a defaultdict(set):     *)
(* reading self.index[key] for a key that is missing inserts the key with  *)
(* an empty set.  The terms a query looks up are collected in the order of *)
(* the evaluation and the reads are applied to the index.                  *)
(***************************************************************************)
\* self.index[key]: the index after the read
index_after_read(idx, key) == IF key \in DOMAIN idx THEN idx ELSE (key :> {}) @@ idx

\* a _search_term that reads self.index[normalized_term] without the membership test
index_after_unguarded_term(idx, term) == index_after_read(idx, normalize_text(term))

\* _search_term: the key is read only after 'normalized_term in self.index'
index_after_search_term(idx, term) ==
    LET normalized_term == normalize_text(term) IN
    IF normalized_term \in DOMAIN idx THEN index_after_read(idx, normalized_term) ELSE idx

is_index_term(term) == ~is_placeholder(term)

\* the terms _parse_and_not passes to _search_term
clause_lookups(query_part) ==
    LET terms == classify_terms(split(query_part), 1, <<>>, <<>>) IN
    IF terms.positive_terms = <<>> THEN <<>>
    ELSE SelectSeq(terms.positive_terms \o terms.negative_terms, is_index_term)

RECURSIVE simple_query_lookups_from(_, _)
simple_query_lookups_from(or_parts, i) ==
    IF i > Len(or_parts) THEN <<>>
    ELSE (IF or_parts[i] = <<>> THEN <<>> ELSE clause_lookups(or_parts[i]))
         \o simple_query_lookups_from(or_parts, i + 1)

\* the terms _evaluate_simple_query looks up
simple_query_lookups(q) == simple_query_lookups_from(or_parts_of(q), 1)

RECURSIVE group_lookups(_, _)
\* the terms looked up by the parenthesis loop and the final evaluation
group_lookups(q, placeholder_id) ==
    IF "(" \notin Range(q) THEN simple_query_lookups(q)
    ELSE LET match == innermost_group(q) IN
         IF match = <<>> THEN <<>>
         ELSE simple_query_lookups(SubSeq(q, match[1] + 1, match[2] - 1))
              \o group_lookups(replace_first(q, SubSeq(q, match[1], match[2]),
                                             sub_placeholder(placeholder_id)),
                               placeholder_id + 1)

RECURSIVE phrase_lookups_from(_, _, _, _)
\* the first tokens _search_phrase looks up, until a phrase raises
phrase_lookups_from(idx, docs, phrases, k) ==
    IF k > Len(phrases) THEN <<>>
    ELSE LET phrase_tokens == tokenize(phrases[k]) IN
         (IF phrase_tokens = <<>> THEN <<>> ELSE <<phrase_tokens[1]>>)
         \o (IF search_phrase(idx, docs, phrases[k]).raised THEN <<>>
             ELSE phrase_lookups_from(idx, docs, phrases, k + 1))

\* every term InvertedIndex.search(q0) passes to _search_term
searched_terms(idx, docs, q0) ==
    LET q1 == strip(q0)
        phrases == find_phrases(q1)
        q2 == replace_phrases(q1, phrases, 1)
    IN  phrase_lookups_from(idx, docs, phrases, 1)
        \o (IF \E k \in 1..Len(phrases) : search_phrase(idx, docs, phrases[k]).raised
            THEN <<>>
            ELSE group_lookups(q2, 0))

RECURSIVE index_after_lookups(_, _, _)
index_after_lookups(idx, terms, i) ==
    IF i > Len(terms) THEN idx
    ELSE index_after_lookups(index_after_search_term(idx, terms[i]), terms, i + 1)

\* self.index after InvertedIndex.search(q)
index_after_search(idx, docs, q) ==
    index_after_lookups(idx, searched_terms(idx, docs, q), 1)

\* CNSSearchEngine.get_stats, without index_size_mb (the length of the printed
\* object address)
get_stats(idx, docs) ==
    [total_documents |-> Cardinality(DOMAIN docs),
     total_unique_terms |-> Cardinality(DOMAIN idx)]

(***************************************************************************)
(* TextProcessor.extract_snippet                                           *)
(***************************************************************************)
\* str(x): a str is itself, a NaN prints as 'nan'
str_of(x) == IF isna(x) THEN <<"n", "a", "n">> ELSE x

\* s.lower()
lower_str(s) == [k \in 1..Len(s) |-> lower(s[k])]

\* s[a:b] for 0 <= a <= b
slice(s, a, b) == SubSeq(s, a + 1, Min({b, Len(s)}))

\* s[:m]: the first m elements, all but the last -m when m is negative
prefix(s, m) == IF m >= 0 THEN slice(s, 0, m) ELSE SubSeq(s, 1, Len(s) + m)

Ellipsis == <<".", ".", ".">>

\* the step of the window scan
snippet_step == 20

\* matches of one window: a sum with one addend per entry of query_terms
window_matches(snippet_text, query_terms) ==
    LET snippet_tokens == Range(tokenize(snippet_text)) IN
    Cardinality({k \in 1..Len(query_terms) : lower_str(query_terms[k]) \in snippet_tokens})

RECURSIVE best_position_from(_, _, _, _, _, _)
\* the for loop over range(0, len(text) - max_length, 20), from offset i on
best_position_from(text, query_terms, max_length, i, best_position, max_matches) ==
    IF i >= Len(text) - max_length THEN best_position
    ELSE LET matches == window_matches(slice(text, i, i + max_length), query_terms) IN
         IF matches > max_matches
         THEN best_position_from(text, query_terms, max_length, i + snippet_step, i, matches)
         ELSE best_position_from(text, query_terms, max_length, i + snippet_step,
                                 best_position, max_matches)

\* TextProcessor.extract_snippet for a str text and max_length > 0
extract_snippet(text, query_terms, max_length) ==
    IF query_terms = <<>> \/ isna(text)
    THEN (IF Len(str_of(text)) > max_length
          THEN prefix(text, max_length) \o Ellipsis
          ELSE str_of(text))
    ELSE LET best_position ==
                 best_position_from(text, query_terms, max_length, 0, 0, 0)
             window == slice(text, best_position, best_position + max_length)
         IN  (IF best_position > 0 THEN Ellipsis ELSE <<>>)
             \o window
             \o (IF best_position + max_length < Len(text) THEN Ellipsis ELSE <<>>)

(***************************************************************************)
(* CNSSearchEngine: scoring and ranking.  A score is a float that is a sum *)
(* of 3.0 and 1.0 addends: it is exact, and modelled as an integer.        *)
(***************************************************************************)
title_weight == 3

default_max_results == 20

default_max_length == 200

\* count() that stops at the first occurrence
member_of(tokens, token) == IF token \in Range(tokens) THEN 1 ELSE 0

RECURSIVE count_of(_, _)
\* tokens.count(token)
count_of(tokens, token) ==
    IF tokens = <<>> THEN 0
    ELSE (IF Head(tokens) = token THEN 1 ELSE 0) + count_of(Tail(tokens), token)

RECURSIVE title_score_from(_, _, _, _)
\* the loop over query_tokens of lines 339-341
title_score_from(title_tokens, query_tokens, i, score) ==
    IF i > Len(query_tokens) THEN score
    ELSE title_score_from(title_tokens, query_tokens, i + 1,
             IF query_tokens[i] \in title_tokens THEN score + title_weight ELSE score)

RECURSIVE text_score_from(_, _, _, _)
\* the loop over query_tokens of lines 346-348
text_score_from(pdf_tokens, query_tokens, i, score) ==
    IF i > Len(query_tokens) THEN score
    ELSE text_score_from(pdf_tokens, query_tokens, i + 1,
                         score + count_of(pdf_tokens, query_tokens[i]))

\* CNSSearchEngine._calculate_score
calculate_score(document, query_tokens) ==
    LET after_title ==
            IF "titulo" \in DOMAIN document
            THEN title_score_from(Range(tokenize(document["titulo"])), query_tokens, 1, 0)
            ELSE 0
    IN  IF "texto" \in DOMAIN document /\ ~isna(document["texto"])
        THEN text_score_from(tokenize(str_of(document["texto"])), query_tokens, 1,
                             after_title)
        ELSE after_title

\* doc.get(key, '')
get_field(doc, key) == IF key \in DOMAIN doc THEN doc[key] ELSE <<>>

\* the SearchResult built for doc_id (the fields that the engine computes)
search_result(docs, doc_id, query_tokens) ==
    [id |-> doc_id,
     titulo |-> get_field(docs[doc_id], "titulo"),
     score |-> calculate_score(docs[doc_id], query_tokens),
     snippet |-> extract_snippet(str_of(get_field(docs[doc_id], "texto")), query_tokens,
                                 default_max_length)]

\* every id of doc_ids goes on to scoring
all_ids(doc_ids, max_results) == doc_ids

\* doc_ids[:max_results], the ids that are scored
ids_to_score(doc_ids, max_results) == prefix(doc_ids, max_results)

\* an insertion that puts r before the results of equal score
insert_before_ties(sorted, r) ==
    LET before == {k \in 1..Len(sorted) : sorted[k].score > r.score}
        n == Cardinality(before)
    IN  SubSeq(sorted, 1, n) \o <<r>> \o SubSeq(sorted, n + 1, Len(sorted))

\* one insertion of the stable descending sort: r goes after every result whose
\* score is greater than or equal to its own
insert_by_score(sorted, r) ==
    LET before == {k \in 1..Len(sorted) : sorted[k].score >= r.score}
        n == Cardinality(before)
    IN  SubSeq(sorted, 1, n) \o <<r>> \o SubSeq(sorted, n + 1, Len(sorted))

RECURSIVE sort_from(_, _, _)
\* results.sort(key=lambda x: x.score, reverse=True)
sort_from(results, i, sorted) ==
    IF i > Len(results) THEN sorted
    ELSE sort_from(results, i + 1, insert_by_score(sorted, results[i]))

\* the orders list(final_result_set) can give the ids of a set
Orders(ids) == {s \in [1..Cardinality(ids) -> ids] : Range(s) = ids}

\* what a CNSSearchEngine.search call did: the outcome of the index search
\* (NoOutcome when the query is blank), the id list, and the list returned
Ranked(found, doc_ids, max_results, query_tokens, scored, results) ==
    [raised |-> found.raised, ids |-> found.ids, aborted |-> found.aborted,
     flat |-> found.flat, sub_results |-> found.sub_results,
     doc_ids |-> doc_ids, max_results |-> max_results, query_tokens |-> query_tokens,
     scored |-> scored, results |-> results]

(***************************************************************************)
(* Inputs: the documents that are loaded and the queries that are asked.   *)
(***************************************************************************)
mar == <<"m", "a", "r">>
sol == <<"s", "o", "l">>
de == <<"d", "e">>
not == <<"n", "o", "t">>

DocIds == 0..(MaxDocs - 1)

\* rows of the CSV: a null title, a null body, no body column, capitals and a stopword
DocPool == {
    [titulo |-> <<"M", "a", "r", " ", "d", "e", " ", "S", "o", "l">>, texto |-> sol],
    [titulo |-> <<"m", "a", "r", " ", "s", "o", "l">>, texto |-> NaN],
    [titulo |-> NaN, texto |-> <<"s", "o", "l", " ", "m", "a", "r">>],
    [titulo |-> not, texto |-> mar],
    [titulo |-> sol] }

\* the rows loaded where the queries are what varies
QueryDocPool == {
    [titulo |-> <<"m", "a", "r", " ", "s", "o", "l">>, texto |-> NaN],
    [titulo |-> NaN, texto |-> <<"s", "o", "l", " ", "m", "a", "r">>],
    [titulo |-> not, texto |-> mar] }

SeqsUpTo(S, n) == UNION {[1..k -> S] : k \in 1..n}

quoted(p) == <<Quote>> \o p \o <<Quote>>

grouped(x) == <<"(">> \o x \o <<")">>

(***************************************************************************)
(* The state machine.                                                      *)
(***************************************************************************)
NoOutcome == Returned({}, FALSE, <<>>, <<>>)

Init ==
    /\ index = <<>>
    /\ documents = <<>>
    /\ query = <<>>
    /\ outcome = NoOutcome
    /\ pc = "idle"
    /\ nadd = 0

\* InvertedIndex.add_document(doc_id, document) for a document of Pool
AddDocument(Pool) ==
    /\ pc = "idle"
    /\ nadd < MaxAdds
    /\ \E doc_id \in DocIds, document \in Pool :
          /\ documents' = add_document_store(documents, doc_id, document)
          /\ index' = add_document_index(index, doc_id, document)
    /\ nadd' = nadd + 1
    /\ UNCHANGED <<query, outcome, pc>>

\* InvertedIndex.search(q) for a query of Q, up to its return
Search(Q) ==
    /\ pc = "idle"
    /\ \E q \in Q :
          /\ query' = q
          /\ outcome' = search(index, documents, q)
          /\ index' = index_after_search(index, documents, q)
    /\ pc' = "searched"
    /\ UNCHANGED <<documents, nadd>>

\* the caller has taken the result; the locals of the call are gone
Return ==
    /\ pc = "searched"
    /\ pc' = "idle"
    /\ query' = <<>>
    /\ outcome' = NoOutcome
    /\ UNCHANGED <<index, documents, nadd>>

\* queries of bare words and operator words
BaseQueries == {join(ws) : ws \in SeqsUpTo({mar, sol, AND, OR, NOT}, MaxWords)}

\* OR-free clauses, with a phrase and a group that become placeholders
ClauseQueries ==
    {join(ws) : ws \in SeqsUpTo({mar, AND, NOT, quoted(join(<<mar, sol>>)), grouped(sol)},
                                MaxWords)}

\* one quoted phrase
PhraseQueries == {quoted(join(ws)) : ws \in SeqsUpTo({mar, de, sol}, MaxWords)}

\* flat (paren-free) expressions
FlatExpressions ==
    {join(ws) : ws \in SeqsUpTo({mar, OR, NOT, quoted(join(<<mar, sol>>))}, MaxWords)}

\* a flat expression as it is and in parentheses
ParenQueries == FlatExpressions \cup {grouped(x) : x \in FlatExpressions}

EmptyGroup == <<"(", ")">>

ShortExpressions ==
    {join(ws) : ws \in SeqsUpTo({mar, sol, OR, quoted(join(<<mar, sol>>))}, MaxWords - 1)}

\* a flat expression: as it is, beside an empty group, with an unmatched parenthesis
MalformedQueries ==
    ShortExpressions
    \cup {join(<<x, AND, EmptyGroup>>) : x \in ShortExpressions}
    \cup {join(<<x, OR, EmptyGroup>>) : x \in ShortExpressions}
    \cup {x \o <<")">> : x \in ShortExpressions}
    \cup {join(<<mar, AND, <<"(">> \o x>>) : x \in ShortExpressions}

\* bare words and operator words after an unclosed quote, and without it
QuoteQueries ==
    LET texts == {join(ws) : ws \in SeqsUpTo({mar, sol, OR, NOT}, MaxWords)} IN
    texts \cup {<<Quote>> \o t : t \in texts}

Next == AddDocument(DocPool) \/ Search(BaseQueries) \/ Return

Spec == Init /\ [][Next]_vars

NextClause == AddDocument(QueryDocPool) \/ Search(ClauseQueries) \/ Return

SpecClause == Init /\ [][NextClause]_vars

NextPhrase == AddDocument(DocPool) \/ Search(PhraseQueries) \/ Return

SpecPhrase == Init /\ [][NextPhrase]_vars

NextParens == AddDocument(QueryDocPool) \/ Search(ParenQueries) \/ Return

SpecParens == Init /\ [][NextParens]_vars

NextMalformed == AddDocument(QueryDocPool) \/ Search(MalformedQueries) \/ Return

SpecMalformed == Init /\ [][NextMalformed]_vars

NextQuote == AddDocument(QueryDocPool) \/ Search(QuoteQueries) \/ Return

SpecQuote == Init /\ [][NextQuote]_vars

(***************************************************************************)
(* CNSSearchEngine.search                                                  *)
(***************************************************************************)
\* lines 296-303: the index is searched unless the query is blank
index_search_of(idx, docs, q) == IF strip(q) = <<>> THEN NoOutcome ELSE search(idx, docs, q)

\* lines 302-330, for the list doc_ids that index.search returned
rank(docs, q, max_results, found, doc_ids) ==
    IF found.raised \/ doc_ids = <<>>
    THEN Ranked(found, doc_ids, max_results, <<>>, <<>>, <<>>)
    ELSE LET query_tokens == tokenize(q)
             kept == ids_to_score(doc_ids, max_results)
             scored == [k \in 1..Len(kept) |-> search_result(docs, kept[k], query_tokens)]
             sorted == sort_from(scored, 1, <<>>)
         IN  Ranked(found, doc_ids, max_results, query_tokens, scored,
                    prefix(sorted, max_results))

medicina == <<"m", "e", "d", "i", "c", "i", "n", "a">>

\* rows that score differently: a title hit, five body hits, both, a null title
EnginePool == {
    [titulo |-> medicina, texto |-> NaN],
    [titulo |-> <<>>, texto |-> join(<<medicina, medicina, medicina, medicina, medicina>>)],
    [titulo |-> join(<<mar, medicina>>), texto |-> join(<<medicina, mar>>)],
    [titulo |-> NaN, texto |-> medicina] }

EngineQueries ==
    {medicina, mar, join(<<medicina, OR, mar>>), join(<<medicina, medicina>>), <<" ", " ">>}

\* max_results: a negative one, 0 .. MaxDocs, and the default
MaxResultsChoices == (-1..MaxDocs) \cup {default_max_results}

\* CNSSearchEngine.search(q, max_results), up to its return; list(final_result_set)
\* gives the ids in an order that the set does not fix
EngineSearch(Q, M) ==
    /\ pc = "idle"
    /\ \E q \in Q, max_results \in M :
          LET found == index_search_of(index, documents, q) IN
          \E doc_ids \in Orders(found.ids) :
             /\ query' = q
             /\ outcome' = rank(documents, q, max_results, found, doc_ids)
             /\ index' = IF strip(q) = <<>> THEN index
                         ELSE index_after_search(index, documents, q)
    /\ pc' = "ranked"
    /\ UNCHANGED <<documents, nadd>>

\* the caller has taken the ranked list
EngineReturn ==
    /\ pc = "ranked"
    /\ pc' = "idle"
    /\ query' = <<>>
    /\ outcome' = NoOutcome
    /\ UNCHANGED <<index, documents, nadd>>

NextEngine ==
    AddDocument(EnginePool) \/ EngineSearch(EngineQueries, MaxResultsChoices) \/ EngineReturn

SpecEngine == Init /\ [][NextEngine]_vars

saude == <<"s", "a", "u", "d", "e">>
sub == <<"s", "u", "b">>

\* the same word in other letter cases and with its accent
SaudeSpellings ==
    {saude, <<"s", "a", "ú", "d", "e">>, <<"S", "A", "Ú", "D", "E">>,
     <<"S", "a", "u", "d", "e">>}

\* bare words a user can type: spellings of saude, of mar, of not and of sub
BareWords ==
    SaudeSpellings
    \cup {mar, <<"M", "A", "R">>, not, <<"N", "o", "t">>, sub,
          <<"_", "_", "s", "u", "b", "_", "_">>, SubPrefix}

\* rows whose words are spelled in several ways
TermDocPool == {
    [titulo |-> <<"S", "a", "ú", "d", "e", " ", "s", "u", "b">>, texto |-> mar],
    [titulo |-> NaN, texto |-> saude],
    [titulo |-> not, texto |-> join(<<sub, mar>>)] }

\* the keys the rows of TermDocPool can put in the index
TermKeys == UNION {title_keys(d) \cup text_keys(d) : d \in TermDocPool}

\* a bare word, and 'X NOT X' for the keys X
TermQueries == BareWords \cup {join(<<x, NOT, x>>) : x \in TermKeys}

NextTerms == AddDocument(TermDocPool) \/ Search(TermQueries) \/ Return

SpecTerms == Init /\ [][NextTerms]_vars

\* unknown terms, a typed placeholder, phrases, groups and malformed parentheses
ReadOnlyQueries ==
    MalformedQueries
    \cup {saude, join(<<mar, NOT, saude>>), join(<<mar, AND, saude>>),
          quoted(join(<<saude, mar>>)), sub_placeholder(0),
          join(<<grouped(saude), OR, mar>>), grouped(grouped(join(<<saude, sol>>)))}

NextReadOnly ==
    \/ AddDocument(QueryDocPool)
    \/ Search(ReadOnlyQueries)
    \/ Return
    \/ EngineSearch(ReadOnlyQueries, {default_max_results})
    \/ EngineReturn

SpecReadOnly == Init /\ [][NextReadOnly]_vars

\* well-formed queries of the grammar: terms are bare words (one has the form of a
\* placeholder), a phrase, and groups nested one and two deep
GrammarWords == {mar, sol, sub_placeholder(0)}

GrammarAtoms == GrammarWords \cup {quoted(join(<<mar, sol>>))}

Binary(terms) == {join(<<a, op, b>>) : a \in terms, op \in {AND, OR, NOT}, b \in terms}

GrammarTerms ==
    GrammarAtoms
    \cup {grouped(x) : x \in Binary({mar, sol})}
    \cup {grouped(join(<<quoted(join(<<mar, sol>>)), OR, mar>>))}

NestedGroups ==
    {grouped(join(<<mar, op, grouped(x)>>)) : op \in {AND, OR, NOT}, x \in Binary({mar, sol})}

GrammarQueries ==
    GrammarTerms
    \cup Binary(GrammarTerms)
    \cup {join(<<g, op, d>>) : g \in NestedGroups, op \in {AND, OR, NOT},
                                d \in {sol, sub_placeholder(0)}}

NextTree == AddDocument(QueryDocPool) \/ Search(GrammarQueries) \/ Return

SpecTree == Init /\ [][NextTree]_vars

(***************************************************************************)
(* InvertedIndex._parse_boolean_query, one step per iteration of its       *)
(* parenthesis loop.  While pc = "loop" the variable outcome holds the     *)
(* locals of the call: query (flat), sub_results and placeholder_id.       *)
(***************************************************************************)
Locals(flat, sub_results, placeholder_id) ==
    [raised |-> FALSE, ids |-> {}, aborted |-> FALSE, flat |-> flat,
     sub_results |-> sub_results, placeholder_id |-> placeholder_id]

RECURSIVE substitute_everywhere(_, _, _)
\* query.replace(match.group(0), placeholder): every occurrence
substitute_everywhere(q, group_text, placeholder) ==
    IF contains(q, group_text)
    THEN substitute_everywhere(replace_first(q, group_text, placeholder),
                               group_text, placeholder)
    ELSE q

\* line 145: query.replace(match.group(0), placeholder, 1)
substitute_group(q, group_text, placeholder) == replace_first(q, group_text, placeholder)

\* lines 111-129: the phrases are replaced and searched, the loop is entered
BeginSearch(Q) ==
    /\ pc = "idle"
    /\ \E q \in Q :
          LET q1 == strip(q)
              phrases == find_phrases(q1)
              q2 == replace_phrases(q1, phrases, 1)
              found == [k \in 1..Len(phrases) |-> search_phrase(index, documents, phrases[k])]
              sub_results ==
                  [ph \in {phrase_placeholder(k - 1) : k \in 1..Len(phrases)} |->
                      found[CHOOSE k \in 1..Len(phrases) : phrase_placeholder(k - 1) = ph].ids]
          IN  /\ query' = q
              /\ index' = index_after_lookups(index,
                              phrase_lookups_from(index, documents, phrases, 1), 1)
              /\ IF \E k \in 1..Len(phrases) : found[k].raised
                 THEN outcome' = Raised(q2) /\ pc' = "searched"
                 ELSE outcome' = Locals(q2, sub_results, 0) /\ pc' = "loop"
    /\ UNCHANGED <<documents, nadd>>

\* lines 130-146: one iteration of 'while "(" in query'
LoopIteration ==
    /\ pc = "loop"
    /\ "(" \in Range(outcome.flat)
    /\ LET q == outcome.flat
           match == innermost_group(q)
       IN  IF match = <<>>
           THEN /\ outcome' = Returned({}, TRUE, q, outcome.sub_results)
                /\ pc' = "searched"
                /\ UNCHANGED index
           ELSE LET sub_query == SubSeq(q, match[1] + 1, match[2] - 1)
                    placeholder == sub_placeholder(outcome.placeholder_id)
                    result_set == evaluate_simple_query(index, sub_query, outcome.sub_results)
                IN  /\ outcome' =
                           Locals(substitute_group(q, SubSeq(q, match[1], match[2]), placeholder),
                                  (placeholder :> result_set) @@ outcome.sub_results,
                                  outcome.placeholder_id + 1)
                    /\ pc' = "loop"
                    /\ index' = index_after_lookups(index, simple_query_lookups(sub_query), 1)
    /\ UNCHANGED <<documents, query, nadd>>

\* lines 148-150: the loop is left and the flat query is evaluated
LoopExit ==
    /\ pc = "loop"
    /\ "(" \notin Range(outcome.flat)
    /\ outcome' = Returned(evaluate_simple_query(index, outcome.flat, outcome.sub_results),
                           FALSE, outcome.flat, outcome.sub_results)
    /\ index' = index_after_lookups(index, simple_query_lookups(outcome.flat), 1)
    /\ pc' = "searched"
    /\ UNCHANGED <<documents, query, nadd>>

LoopDocPool == {
    [titulo |-> <<"m", "a", "r", " ", "s", "o", "l">>, texto |-> NaN],
    [titulo |-> not, texto |-> mar] }

\* groups side by side, nested, repeated, empty, unmatched, and beside a typed placeholder
LoopQueries ==
    MalformedQueries
    \cup {grouped(grouped(mar)),
          join(<<grouped(mar), OR, grouped(mar)>>),
          grouped(join(<<grouped(join(<<mar, OR, sol>>)), AND, grouped(sol)>>)),
          join(<<grouped(join(<<quoted(join(<<mar, sol>>)), OR, grouped(sol)>>)), NOT, mar>>),
          join(<<grouped(mar), sub_placeholder(0)>>),
          <<"(", "(", ")">>, <<")", "(">>, <<"(">> \o grouped(mar),
          join(<<grouped(mar), <<"(">> \o sol>>)}

NextLoop ==
    AddDocument(LoopDocPool) \/ BeginSearch(LoopQueries) \/ LoopIteration \/ LoopExit \/ Return

SpecLoop == Init /\ [][NextLoop]_vars

(***************************************************************************)
(* TextProcessor.extract_snippet called on its own.                        *)
(***************************************************************************)
\* a word followed by blanks up to the width of one scan step
Block(w) == w \o [k \in 1..(snippet_step - Len(w)) |-> " "]

\* bodies of three blocks and a last word: each block holds mar, sol or a stopword
SnippetTexts ==
    {Block(a) \o Block(b) \o Block(c) \o <<"f", "i", "m">> : a, b, c \in {mar, sol, de}}

\* query_terms: no term, and lists of terms with repetitions and capitals
SnippetTerms == {<<>>} \cup SeqsUpTo({mar, sol, <<"M", "A", "R">>}, MaxWords)

SnippetLengths == {snippet_step, snippet_step + 10}

\* what an extract_snippet call was given and what it returned
Snipped(text, query_terms, max_length, snippet) ==
    [raised |-> FALSE, ids |-> {}, aborted |-> FALSE, flat |-> <<>>, sub_results |-> <<>>,
     text |-> text, query_terms |-> query_terms, max_length |-> max_length,
     snippet |-> snippet]

\* TextProcessor.extract_snippet(text, query_terms, max_length), up to its return
Snippet(Texts, Terms, Lengths) ==
    /\ pc = "idle"
    /\ \E text \in Texts, query_terms \in Terms, max_length \in Lengths :
          outcome' = Snipped(text, query_terms, max_length,
                             extract_snippet(text, query_terms, max_length))
    /\ pc' = "snipped"
    /\ UNCHANGED <<index, documents, query, nadd>>

\* the caller has taken the snippet
SnippetReturn ==
    /\ pc = "snipped"
    /\ pc' = "idle"
    /\ outcome' = NoOutcome
    /\ UNCHANGED <<index, documents, query, nadd>>

NextSnippet == Snippet(SnippetTexts, SnippetTerms, SnippetLengths) \/ SnippetReturn

SpecSnippet == Init /\ [][NextSnippet]_vars

(***************************************************************************)
(* Vocabulary of the properties.                                           *)
(***************************************************************************)
Searched == pc = "searched"

OperatorWords == {AND, OR, NOT}

ParenFree(q) == "(" \notin Range(q) /\ ")" \notin Range(q)

QuoteFree(q) == Quote \notin Range(q)

\* a field of a document as text: a missing or null field is the empty text
FieldText(doc, key) == IF key \in DOMAIN doc /\ ~isna(doc[key]) THEN doc[key] ELSE <<>>

\* the tokens the title or the body of a document yields
DocumentTokens(doc) ==
    Range(tokenize(FieldText(doc, "titulo"))) \cup Range(tokenize(FieldText(doc, "texto")))

\* the normalized title+body text of a document
NormalizedDocumentText(doc) ==
    normalize_text(FieldText(doc, "titulo") \o <<" ">> \o FieldText(doc, "texto"))

\* the ids a query returns and whether it raised
Visible(o) == [raised |-> o.raised, ids |-> o.ids]

(***************************************************************************)
(* C1  After any sequence of add_document calls, for every stored id d and *)
(* every plain term t: d is in the posting set of t iff tokenizing the     *)
(* title or the body of the document currently stored at d yields t.       *)
(***************************************************************************)
PlainTerms ==
    {k \in DOMAIN index : ~startswith(k, TitlePrefix)}
    \cup UNION {DocumentTokens(doc) : doc \in DocPool}

C1_PostingsMatchDocuments ==
    \A d \in DOMAIN documents : \A t \in PlainTerms :
        (t \in DOMAIN index /\ d \in index[t]) <=> t \in DocumentTokens(documents[d])

(***************************************************************************)
(* C2  A clause (paren-free, OR-free) evaluates to the intersection of the *)
(* sets of its positive terms minus the union of the sets of its negative  *)
(* terms (the word after each NOT), AND being a no-op; with no positive    *)
(* term the result is empty.  The ids of 'X NOT Y' are among those of 'X'. *)
(* The words are classified without the scan of _parse_and_not: a word is  *)
(* taken by a NOT iff an odd number of NOT words stand right before it.    *)
(***************************************************************************)
NotsBefore(words, i) ==
    LET others == {j \in 1..(i - 1) : words[j] /= NOT} IN
    IF others = {} THEN i - 1
    ELSE (i - 1) - (CHOOSE j \in others : \A k \in others : k <= j)

NegativePositions(words) == {i \in 1..Len(words) : NotsBefore(words, i) % 2 = 1}

PositivePositions(words) ==
    {i \in 1..Len(words) :
        /\ i \notin NegativePositions(words)
        /\ words[i] /= AND
        /\ ~(words[i] = NOT /\ i < Len(words))}

ClauseAlgebra(words, table) ==
    LET pos == PositivePositions(words)
        neg == NegativePositions(words)
        positive == {term_results(index, words[i], table) : i \in pos}
        negative == {term_results(index, words[i], table) : i \in neg}
    IN  IF pos = {} THEN {}
        ELSE {d \in UNION positive : \A s \in positive : d \in s} \ UNION negative

C2_ClauseIsIntersectionMinusUnion ==
    (Searched /\ ~outcome.raised /\ ~outcome.aborted) =>
        LET words == split(outcome.flat)
            typed == split(query)
        IN  /\ OR \notin Range(words) =>
                  outcome.ids = ClauseAlgebra(words, outcome.sub_results)
            /\ (Len(typed) = 3 /\ typed[2] = NOT
                  /\ typed[1] \notin OperatorWords /\ typed[3] \notin OperatorWords) =>
                  outcome.ids \subseteq search(index, documents, typed[1]).ids

C2_Witness ==
    /\ Searched
    /\ query = join(<<mar, NOT, grouped(sol)>>)
    /\ outcome.ids /= {}
    /\ outcome.ids /= search_term(index, mar)

(***************************************************************************)
(* C3  A paren-free query returns the union of the results of the clauses  *)
(* obtained by splitting its whitespace-separated words at every word that *)
(* is exactly OR (an empty clause gives the empty set), also when OR words *)
(* are adjacent or lead the query.                                         *)
(***************************************************************************)
RECURSIVE ClausesFrom(_, _, _, _)
ClausesFrom(words, i, cur, acc) ==
    IF i > Len(words) THEN Append(acc, cur)
    ELSE IF words[i] = OR THEN ClausesFrom(words, i + 1, <<>>, Append(acc, cur))
    ELSE ClausesFrom(words, i + 1, Append(cur, words[i]), acc)

ClausesAtOrWords(words) == ClausesFrom(words, 1, <<>>, <<>>)

C3_UnionOfClausesAtOrWords ==
    (Searched /\ ParenFree(query) /\ QuoteFree(query)) =>
        LET clauses == ClausesAtOrWords(split(query)) IN
        /\ ~outcome.raised
        /\ outcome.ids =
              UNION {IF clauses[i] = <<>> THEN {}
                     ELSE parse_and_not(index, join(clauses[i]), <<>>) :
                     i \in 1..Len(clauses)}

(***************************************************************************)
(* C4  A quoted-phrase query has no false positives: every document that   *)
(* the query '"p"' returns has a normalized title+body text that contains  *)
(* normalize(p) as a contiguous substring.                                 *)
(***************************************************************************)
IsPhraseQuery(q) ==
    /\ Len(q) >= 3
    /\ q[1] = Quote
    /\ q[Len(q)] = Quote
    /\ QuoteFree(SubSeq(q, 2, Len(q) - 1))

PhraseOf(q) == SubSeq(q, 2, Len(q) - 1)

C4_PhraseNoFalsePositive ==
    (Searched /\ IsPhraseQuery(query) /\ ~outcome.raised) =>
        \A d \in outcome.ids :
            contains(NormalizedDocumentText(documents[d]), normalize_text(PhraseOf(query)))

(***************************************************************************)
(* C5  A quoted-phrase query has no false negatives: when p has at least   *)
(* one indexable word, every indexed document whose normalized title+body  *)
(* contains normalize(p) as a contiguous run of whole words is returned    *)
(* for '"p"'.                                                              *)
(***************************************************************************)
C5_PhraseNoFalseNegative ==
    (Searched /\ IsPhraseQuery(query) /\ ~outcome.raised
        /\ tokenize(PhraseOf(query)) /= <<>>) =>
        \A d \in DOMAIN documents :
            contains(split(NormalizedDocumentText(documents[d])),
                     split(normalize_text(PhraseOf(query))))
                => d \in outcome.ids

(***************************************************************************)
(* C6  For every flat expression X, quoted phrases included, search('(X)') *)
(* does what search('X') does: the same ids, or the same failure.          *)
(***************************************************************************)
IsWholeGroup(q) ==
    /\ Len(q) >= 2
    /\ q[1] = "("
    /\ q[Len(q)] = ")"
    /\ ParenFree(SubSeq(q, 2, Len(q) - 1))
    /\ strip(SubSeq(q, 2, Len(q) - 1)) = SubSeq(q, 2, Len(q) - 1)

C6_WholeGroupIsNoOp ==
    (Searched /\ IsWholeGroup(query)) =>
        Visible(outcome) = Visible(search(index, documents, SubSeq(query, 2, Len(query) - 1)))

C6_Witness ==
    /\ Searched
    /\ query = grouped(join(<<quoted(join(<<mar, sol>>)), OR, mar>>))
    /\ Cardinality(outcome.ids) = 2

(***************************************************************************)
(* C7  An empty group '()' is the empty set for that group only: for every *)
(* flat expression X, search('X AND ()') is empty and search('X OR ()')    *)
(* returns the ids of search('X').                                         *)
(***************************************************************************)
EndsWith(q, suffix) ==
    Len(q) >= Len(suffix) /\ SubSeq(q, Len(q) - Len(suffix) + 1, Len(q)) = suffix

AndEmptyGroup == <<" ">> \o AND \o <<" ">> \o EmptyGroup

OrEmptyGroup == <<" ">> \o OR \o <<" ">> \o EmptyGroup

C7_EmptyGroupIsLocal ==
    Searched =>
        /\ (EndsWith(query, AndEmptyGroup)
              /\ ParenFree(SubSeq(query, 1, Len(query) - Len(AndEmptyGroup))))
             => outcome.ids = {}
        /\ (EndsWith(query, OrEmptyGroup)
              /\ ParenFree(SubSeq(query, 1, Len(query) - Len(OrEmptyGroup))))
             => Visible(outcome) =
                   Visible(search(index, documents,
                                  SubSeq(query, 1, Len(query) - Len(OrEmptyGroup))))

\* C7 as amended: a query that holds an empty group '()' is abandoned as a
\* whole: for every flat expression X, search('X AND ()') and
\* search('X OR ()') both return no document, and when X has no quoted
\* phrase the evaluation ends at the "return []" of the parenthesis loop
\* without an error.
C7_EmptyGroupEmptiesQuery ==
    Searched =>
        \A suffix \in {AndEmptyGroup, OrEmptyGroup} :
            (EndsWith(query, suffix) /\ ParenFree(SubSeq(query, 1, Len(query) - Len(suffix))))
            => /\ outcome.ids = {}
               /\ QuoteFree(query) => (~outcome.raised /\ outcome.aborted)

C7_Witness ==
    /\ Searched
    /\ query = join(<<mar, OR, EmptyGroup>>)
    /\ search(index, documents, mar).ids /= {}
    /\ outcome.aborted
    /\ outcome.ids = {}

(***************************************************************************)
(* C8  Every query with unbalanced parentheses, an unmatched '(' or an     *)
(* unmatched ')', gives the empty result and raises no error.              *)
(***************************************************************************)
Depth(q, i) ==
    Cardinality({j \in 1..i : q[j] = "("}) - Cardinality({j \in 1..i : q[j] = ")"})

Unbalanced(q) == Depth(q, Len(q)) /= 0 \/ \E i \in 1..Len(q) : Depth(q, i) < 0

C8_UnbalancedIsEmpty ==
    (Searched /\ QuoteFree(query) /\ Unbalanced(query)) =>
        (~outcome.raised /\ outcome.ids = {})

(***************************************************************************)
(* C9  Whatever the index holds, a query made only of the operator words   *)
(* AND, OR, NOT gives the empty result.                                    *)
(***************************************************************************)
OnlyOperators(q) == split(q) /= <<>> /\ Range(split(q)) \subseteq OperatorWords

C9_OnlyOperatorsIsEmpty ==
    (Searched /\ OnlyOperators(query)) => (~outcome.raised /\ outcome.ids = {})

(***************************************************************************)
(* C10  A query with an unclosed double quote is not a phrase and does not *)
(* fail: search('"w1 w2') returns what search('w1 w2') returns, for        *)
(* ordinary words w1 (not an operator word) followed by any flat text.     *)
(***************************************************************************)
IsUnclosedQuote(q) ==
    /\ Len(q) >= 2
    /\ q[1] = Quote
    /\ QuoteFree(Tail(q))
    /\ ParenFree(q)
    /\ q[2] \notin WhiteSpace
    /\ split(Tail(q))[1] \notin OperatorWords

C10_UnclosedQuoteIsOrdinaryText ==
    (Searched /\ IsUnclosedQuote(query)) =>
        /\ ~outcome.raised
        /\ outcome.sub_results = <<>>
        /\ outcome.ids = search(index, documents, Tail(query)).ids

C10_Witness ==
    /\ Searched
    /\ query = <<Quote>> \o join(<<mar, sol>>)
    /\ outcome.ids /= {}
    /\ \E d \in outcome.ids :
          ~contains(NormalizedDocumentText(documents[d]), join(<<mar, sol>>))
(***************************************************************************)
(* C11  Missing field data never raises: with documents whose title or     *)
(* body is null in the index, every query evaluation, quoted phrases whose *)
(* candidate set holds such a document included, completes without an      *)
(* exception.                                                              *)
(***************************************************************************)
C11_MissingFieldNeverRaises == Searched => ~outcome.raised

(***************************************************************************)
(* C12  CNSSearchEngine.search(query, max_results) with max_results >= 0   *)
(* truncates before scoring: exactly the first max_results ids of the id   *)
(* list of the index search are scored and returned, so the result has at  *)
(* most max_results entries and a document outside that prefix is never    *)
(* returned, even when it scores higher than every returned document.      *)
(***************************************************************************)
RankedNow == pc = "ranked" /\ ~outcome.raised

ResultIds(results) == {results[k].id : k \in 1..Len(results)}

C12_TruncatesBeforeScoring ==
    (RankedNow /\ outcome.max_results >= 0) =>
        LET n == IF outcome.max_results <= Len(outcome.doc_ids)
                 THEN outcome.max_results ELSE Len(outcome.doc_ids)
            first == {outcome.doc_ids[k] : k \in 1..n}
        IN  /\ Len(outcome.results) = n
            /\ Len(outcome.results) <= outcome.max_results
            /\ ResultIds(outcome.results) = first
            /\ ResultIds(outcome.scored) = first

C12_Witness ==
    /\ RankedNow
    /\ outcome.max_results = 1
    /\ Len(outcome.doc_ids) = 2
    /\ Len(outcome.results) = 1
    /\ outcome.results[1].id = outcome.doc_ids[1]
    /\ calculate_score(documents[outcome.doc_ids[2]], outcome.query_tokens)
           > outcome.results[1].score

(***************************************************************************)
(* C13  The list returned by CNSSearchEngine.search is ordered by          *)
(* non-increasing score and the sort is stable: two results of equal score *)
(* keep the relative order they had in the truncated id sequence.          *)
(***************************************************************************)
PositionIn(seq, x) == CHOOSE k \in 1..Len(seq) : seq[k] = x

C13_SortedByScoreStable ==
    RankedNow =>
        \A i, j \in 1..Len(outcome.results) :
            i < j =>
                LET a == outcome.results[i]
                    b == outcome.results[j]
                IN  /\ a.score >= b.score
                    /\ a.score = b.score =>
                           PositionIn(outcome.doc_ids, a.id) < PositionIn(outcome.doc_ids, b.id)

C13_Witness ==
    /\ RankedNow
    /\ Len(outcome.results) = 2
    /\ outcome.results[1].score = outcome.results[2].score
    /\ outcome.results[1].score > 0
    /\ outcome.doc_ids = <<1, 0>>
    /\ outcome.results[1].id = 1

(***************************************************************************)
(* C14  _calculate_score(document, query_tokens) is 3 times the number of  *)
(* entries of query_tokens that are in the title's token set, plus, summed *)
(* over the entries of query_tokens, the occurrences of that token in the  *)
(* body's token list; a document with 'medicina' only in its title scores  *)
(* 3, one with an empty title and 'medicina' five times in its body scores *)
(* 5, and search('medicina') ranks the second above the first.             *)
(***************************************************************************)
ScoreFormula(doc, query_tokens) ==
    LET title == Range(tokenize(FieldText(doc, "titulo")))
        body == tokenize(FieldText(doc, "texto"))
    IN  3 * Cardinality({k \in 1..Len(query_tokens) : query_tokens[k] \in title})
        + Cardinality({kj \in (1..Len(query_tokens)) \X (1..Len(body)) :
                          query_tokens[kj[1]] = body[kj[2]]})

TitleOnly == [titulo |-> medicina, texto |-> NaN]

FiveInBody ==
    [titulo |-> <<>>, texto |-> join(<<medicina, medicina, medicina, medicina, medicina>>)]

C14_ScoreFormula ==
    RankedNow =>
        /\ \A k \in 1..Len(outcome.results) :
              outcome.results[k].score
                  = ScoreFormula(documents[outcome.results[k].id], outcome.query_tokens)
        /\ query = medicina =>
               \A i, j \in 1..Len(outcome.results) :
                   (/\ documents[outcome.results[i].id] = FiveInBody
                    /\ documents[outcome.results[j].id] = TitleOnly) =>
                       /\ outcome.results[i].score = 5
                       /\ outcome.results[j].score = 3
                       /\ i < j

C14_Witness ==
    /\ RankedNow
    /\ query = medicina
    /\ Len(outcome.results) = 2
    /\ documents[outcome.doc_ids[1]] = TitleOnly
    /\ documents[outcome.doc_ids[2]] = FiveInBody
    /\ outcome.results[1].id = outcome.doc_ids[2]

(***************************************************************************)
(* C15  Search is insensitive to the letter case and the diacritics of     *)
(* bare terms: for bare words t and t' that are not operator keywords and  *)
(* have the same normalization, search(t) and search(t') return the same   *)
(* documents.                                                              *)
(***************************************************************************)
C15_CaseAndAccentInsensitive ==
    (Searched /\ query \in BareWords \ OperatorWords) =>
        \A t \in BareWords \ OperatorWords :
            normalize_text(t) = normalize_text(query) =>
                Visible(search(index, documents, t)) = Visible(outcome)

(***************************************************************************)
(* C16  For every term X present in the index, search('X NOT X') returns   *)
(* the empty result.                                                       *)
(***************************************************************************)
C16_SelfNegationIsEmpty ==
    (Searched /\ \E x \in DOMAIN index : query = join(<<x, NOT, x>>)) =>
        ~outcome.raised /\ outcome.ids = {}

C16_Witness ==
    /\ Searched
    /\ query = join(<<mar, NOT, mar>>)
    /\ mar \in DOMAIN index
    /\ index[mar] /= {}
    /\ outcome.ids = {}

(***************************************************************************)
(* C17  Query evaluation is read-only on the index: whatever the query     *)
(* (unknown terms, placeholders, phrases, malformed parentheses), a call   *)
(* of InvertedIndex.search or CNSSearchEngine.search leaves the mapping    *)
(* from terms to posting sets and the document store as they were, so      *)
(* get_stats reports the same totals before and after.                     *)
(***************************************************************************)
SearchStep == pc = "idle" /\ pc' \in {"searched", "ranked"}

C17_SearchIsReadOnly ==
    [][SearchStep =>
          /\ index' = index
          /\ documents' = documents
          /\ get_stats(index', documents') = get_stats(index, documents)]_vars

C17_Witness ==
    /\ Searched
    /\ query = join(<<mar, NOT, saude>>)
    /\ outcome.ids /= {}
    /\ saude \notin DOMAIN index
    /\ searched_terms(index, documents, query) = <<mar, saude>>

(***************************************************************************)
(* C18  For every well-formed query of the grammar (bare words, quoted     *)
(* phrases, AND, NOT, OR, balanced non-empty parentheses nested to any     *)
(* depth) _parse_boolean_query returns the id set of a recursive           *)
(* evaluation of the expression tree: OR is union, AND is intersection,    *)
(* NOT is difference, a parenthesized group is the set of its sub-query, a *)
(* bare word is its index lookup, a phrase is its phrase search.           *)
(***************************************************************************)
RECURSIVE TopTokensFrom(_, _, _, _, _, _)
\* the blank-separated tokens of s that are outside parentheses and quotes
TopTokensFrom(s, i, depth, in_quote, cur, acc) ==
    IF i > Len(s) THEN (IF cur = <<>> THEN acc ELSE Append(acc, cur))
    ELSE IF s[i] = " " /\ depth = 0 /\ ~in_quote
         THEN TopTokensFrom(s, i + 1, depth, in_quote, <<>>,
                            IF cur = <<>> THEN acc ELSE Append(acc, cur))
         ELSE TopTokensFrom(s, i + 1,
                  IF in_quote THEN depth
                  ELSE IF s[i] = "(" THEN depth + 1
                  ELSE IF s[i] = ")" THEN depth - 1 ELSE depth,
                  IF s[i] = Quote THEN ~in_quote ELSE in_quote,
                  Append(cur, s[i]), acc)

RECURSIVE TreeQuery(_, _, _)
RECURSIVE TreeClauseFrom(_, _, _, _, _)

\* Term: a parenthesized sub-query, a quoted phrase or a bare word
TreeTerm(idx, docs, token) ==
    IF token[1] = "(" THEN TreeQuery(idx, docs, SubSeq(token, 2, Len(token) - 1))
    ELSE IF token[1] = Quote THEN search_phrase(idx, docs, SubSeq(token, 2, Len(token) - 1))
    ELSE [raised |-> FALSE, ids |-> search_term(idx, token)]

\* AndNotExpr := Term (('AND' Term) | ('NOT' Term))*, from the operator at i on
TreeClauseFrom(idx, docs, tokens, i, acc) ==
    IF i > Len(tokens) THEN acc
    ELSE LET right == TreeTerm(idx, docs, tokens[i + 1]) IN
         TreeClauseFrom(idx, docs, tokens, i + 2,
             [raised |-> acc.raised \/ right.raised,
              ids |-> IF tokens[i] = AND THEN acc.ids \cap right.ids
                      ELSE acc.ids \ right.ids])

\* OrExpr := AndNotExpr ('OR' AndNotExpr)*
TreeQuery(idx, docs, s) ==
    LET clauses == ClausesAtOrWords(TopTokensFrom(s, 1, 0, FALSE, <<>>, <<>>))
        values == [k \in 1..Len(clauses) |->
                      TreeClauseFrom(idx, docs, clauses[k], 2,
                                     TreeTerm(idx, docs, clauses[k][1]))]
    IN  [raised |-> \E k \in 1..Len(values) : values[k].raised,
         ids |-> UNION {values[k].ids : k \in 1..Len(values)}]

TreeOutcome(idx, docs, s) ==
    LET value == TreeQuery(idx, docs, s) IN
    IF value.raised THEN [raised |-> TRUE, ids |-> {}] ELSE value

C18_MatchesExpressionTree ==
    (Searched /\ query \in GrammarQueries) =>
        Visible(outcome) = TreeOutcome(index, documents, query)

(***************************************************************************)
(* C19  The parenthesis loop of _parse_boolean_query terminates for every  *)
(* query: an iteration either aborts with the empty result (no innermost   *)
(* non-empty group while a '(' remains) or replaces exactly one innermost  *)
(* group by a placeholder not used before, which lowers the number of '('  *)
(* in the rewritten query by exactly one; the loop exits when no '('       *)
(* remains.  Termination is stated by the variant of the loop: every step  *)
(* of a call in the loop is an abort, an exit or an iteration that lowers  *)
(* the number of '(' by one, and the iterations done never exceed the '('  *)
(* the loop started with.                                                  *)
(***************************************************************************)
ParenCount(q) == Cardinality({i \in 1..Len(q) : q[i] = "("})

\* q2 is q with one innermost non-empty group replaced by placeholder
ReplacesOneGroup(q, q2, placeholder) ==
    \E a \in 1..Len(q) : \E b \in (a + 2)..Len(q) :
        /\ q[a] = "("
        /\ q[b] = ")"
        /\ \A j \in (a + 1)..(b - 1) : q[j] \notin {"(", ")"}
        /\ q2 = SubSeq(q, 1, a - 1) \o placeholder \o SubSeq(q, b + 1, Len(q))

HasInnermostGroup(q) ==
    \E a \in 1..Len(q) : \E b \in (a + 2)..Len(q) :
        q[a] = "(" /\ q[b] = ")" /\ \A j \in (a + 1)..(b - 1) : q[j] \notin {"(", ")"}

LoopStepIsAbortOrProgress ==
    (pc = "loop" /\ "(" \in Range(outcome.flat)) =>
        \/ /\ pc' = "searched"
           /\ outcome'.aborted
           /\ outcome'.ids = {}
           /\ ~HasInnermostGroup(outcome.flat)
        \/ /\ pc' = "loop"
           /\ ParenCount(outcome'.flat) = ParenCount(outcome.flat) - 1
           /\ \E placeholder \in DOMAIN outcome'.sub_results \ DOMAIN outcome.sub_results :
                 /\ DOMAIN outcome'.sub_results
                        = DOMAIN outcome.sub_results \cup {placeholder}
                 /\ ReplacesOneGroup(outcome.flat, outcome'.flat, placeholder)

LoopExitsWithoutParen ==
    (pc = "loop" /\ "(" \notin Range(outcome.flat)) =>
        pc' = "searched" /\ ~outcome'.aborted /\ outcome'.flat = outcome.flat

\* the '(' of the query when the loop is entered, the phrases being placeholders
InitialParens(q) == ParenCount(replace_phrases(strip(q), find_phrases(strip(q)), 1))

\* the variant of the loop: the iterations done and the '(' that remain add up to
\* the '(' the loop started with, so a call makes at most that many iterations
LoopVariant ==
    pc = "loop" =>
        /\ outcome.placeholder_id >= 0
        /\ outcome.placeholder_id + ParenCount(outcome.flat) = InitialParens(query)

C19_ParenLoopTerminates ==
    /\ [][LoopStepIsAbortOrProgress /\ LoopExitsWithoutParen]_vars
    /\ []LoopVariant

C19_Witness ==
    /\ pc = "loop"
    /\ outcome.placeholder_id = 1
    /\ sub_placeholder(0) \in DOMAIN outcome.sub_results
    /\ "(" \in Range(outcome.flat)
    /\ HasInnermostGroup(outcome.flat)

(***************************************************************************)
(* C20  extract_snippet with a non-empty query-token list and a body       *)
(* longer than max_length returns the window that starts at the lowest of  *)
(* the scanned offsets 0, 20, 40, ... that maximizes the number of         *)
(* distinct query tokens in the window (a token repeated in the list       *)
(* counts once); '...' is prefixed iff the offset is not 0 and suffixed    *)
(* iff the window does not reach the end of the body.                      *)
(***************************************************************************)
ScannedOffsets(text, max_length) ==
    {i \in 0..(Len(text) - max_length - 1) : i % 20 = 0}

DistinctTokensIn(text, i, max_length, query_terms) ==
    Cardinality({lower_str(t) : t \in Range(query_terms)}
                \cap Range(tokenize(SubSeq(text, i + 1, i + max_length))))

BestOffset(text, max_length, query_terms) ==
    LET best == {i \in ScannedOffsets(text, max_length) :
                    \A j \in ScannedOffsets(text, max_length) :
                        DistinctTokensIn(text, j, max_length, query_terms)
                            <= DistinctTokensIn(text, i, max_length, query_terms)}
    IN  Min(best)

C20_SnippetIsBestWindow ==
    (/\ pc = "snipped"
     /\ outcome.query_terms /= <<>>
     /\ Len(outcome.text) > outcome.max_length) =>
        LET text == outcome.text
            max_length == outcome.max_length
            offset == BestOffset(text, max_length, outcome.query_terms)
        IN  outcome.snippet =
                (IF offset /= 0 THEN <<".", ".", ".">> ELSE <<>>)
                \o SubSeq(text, offset + 1, offset + max_length)
                \o (IF offset + max_length < Len(text) THEN <<".", ".", ".">> ELSE <<>>)

(***************************************************************************)
(* C21  Only tokens generated by the parser during the current evaluation  *)
(* are resolved against the placeholder table, and each generated          *)
(* placeholder occurs exactly once in the rewritten query: a word the user *)
(* typed is resolved by index lookup even when it has the form of a        *)
(* placeholder, so it never denotes the result set of a group or phrase of *)
(* the same query.                                                         *)
(***************************************************************************)
\* the words of the query as typed, parentheses being separators
TypedWords(q) ==
    Range(split([i \in 1..Len(q) |-> IF q[i] \in {"(", ")"} THEN " " ELSE q[i]]))

C21_PlaceholdersAreParserOnly ==
    /\ (pc = "loop" /\ outcome.placeholder_id > 0) =>
           Cardinality(Occurrences(outcome.flat,
                                   sub_placeholder(outcome.placeholder_id - 1))) = 1
    /\ (pc \in {"loop", "searched"} /\ ~outcome.raised) =>
           \A w \in TypedWords(query) :
               is_placeholder(w) => w \notin DOMAIN outcome.sub_results

====
